---- MODULE Spec2Model ----
(***************************************************************************)
(* Model of the sales pipeline: the warehouse build (data/etl.py), the     *)
(* per-entity trainer (models/train_model.py), the forecast sections of    *)
(* the dashboard (app.py), the initial import (scripts/excel_to_pg.py) and *)
(* the daily insert script (data/data_insert.py).                          *)
(*                                                                         *)
(* A text is a sequence of character codes (ASCII), a timestamp is the     *)
(* tuple <<year, month, day, hour>>, a month key "YYYY-MM" is the tuple    *)
(* <<year, month>> (zero-padded fixed-width strings order as the tuples    *)
(* do), and a row of a frame is a record.  A raw row carries, besides its  *)
(* columns, the set `nulls` of the columns that hold NULL.                 *)
(***************************************************************************)
EXTENDS Integers, Sequences, FiniteSets, TLC

VARIABLES
    sales_log,          \* the raw table read by run_etl
    pc,                 \* position of the running run_etl
    frames,             \* run_etl's local frames (dim_date, ..., fact_sales)
    dim_date,           \* persisted table
    dim_customer,       \* persisted table
    dim_product,        \* persisted table
    fact_sales,         \* persisted table
    monthly_sales,      \* aggregate returned by run_etl
    monthly_customer,   \* aggregate returned by run_etl
    monthly_product,    \* aggregate returned by run_etl
    build,              \* history: the run that last wrote each table
    runs,               \* history: number of run_etl calls started
    extracted,          \* history: the sales_log the current run read
    last,               \* history: log, tables and aggregates of the last completed run
    caller,             \* who called the running run_etl: "etl", "train" or "app"
    tpc,                \* position of the training script
    ti,                 \* position of the training script in its current loop
    models,             \* the artifact store: models/<name>_model.pkl
    fit,                \* history: per artifact, the frame train_model fitted it on
    forecast,           \* outcome of the dashboard's last forecast section
    sales,              \* the master table the daily insert script reads
    today,              \* datetime.date.today().toordinal()
    ipc                 \* position of the daily insert script

pipeline == <<caller, tpc, ti, models, fit, forecast>>

master == <<sales, today, ipc>>

vars == <<sales_log, pc, frames, dim_date, dim_customer, dim_product, fact_sales,
          monthly_sales, monthly_customer, monthly_product, build, runs,
          extracted, last, caller, tpc, ti, models, fit, forecast,
          sales, today, ipc>>

\* ------------------------------------------------------------------ bounds
MaxRows == 3
MaxRuns == 2

\* the first day the daily insert script runs on: 2024-01-01 as an ordinal
FirstDay == 738886

\* ------------------------------------------------------------ generic helpers
Range(s) == {s[i] : i \in DOMAIN s}

RECURSIVE PickFrom(_, _, _)
\* the rows of s at the positions in I, from position i on, in order
PickFrom(s, I, i) ==
    IF i > Len(s) THEN <<>>
    ELSE IF i \in I THEN <<s[i]>> \o PickFrom(s, I, i + 1)
    ELSE PickFrom(s, I, i + 1)

\* lexicographic order on sequences of integers (texts, month keys, key tuples)
SeqLess(a, b) ==
    \E k \in 1..(Len(a) + 1) :
        /\ k <= Len(b) + 1
        /\ \A j \in 1..(k - 1) : a[j] = b[j]
        /\ IF k > Len(a) THEN k <= Len(b)
           ELSE k <= Len(b) /\ a[k] < b[k]

\* order on sort keys: a key is a tuple of sequences, compared component-wise
KeyLess(a, b) ==
    \E k \in DOMAIN a :
        /\ \A j \in 1..(k - 1) : a[j] = b[j]
        /\ SeqLess(a[k], b[k])

RECURSIVE SortKeys(_)
\* the keys of the set S in ascending order (ORDER BY)
SortKeys(S) ==
    IF S = {} THEN <<>>
    ELSE LET m == CHOOSE x \in S : \A y \in S : x = y \/ KeyLess(x, y)
         IN  <<m>> \o SortKeys(S \ {m})

RECURSIVE SumOver(_, _)
\* sum of f[x] over the finite set S
SumOver(f, S) ==
    IF S = {} THEN 0
    ELSE LET x == CHOOSE y \in S : TRUE
         IN  f[x] + SumOver(f, S \ {x})

\* ------------------------------------------------------------------ raw data
\* required_columns of the initial import
required_columns == {"InvoiceNo", "StockCode", "Description", "Quantity",
                     "InvoiceDate", "UnitPrice", "CustomerID"}

MUG == <<77, 85, 71>>
CUP == <<67, 85, 80>>
UK  == <<85, 75>>
FR  == <<70, 82>>

Raw(date, cust, stock, desc, country, qty, nulls) ==
    [InvoiceNo |-> 1, StockCode |-> stock, Description |-> desc, Quantity |-> qty,
     InvoiceDate |-> date, UnitPrice |-> 3, CustomerID |-> cust, Country |-> country,
     inserted_at |-> 1, source |-> 1, nulls |-> nulls]

\* the raw rows the warehouse specification draws sales_log from
RawRows ==
    { Raw(<<2024, 1, 5, 9>>,  1, 10, MUG, UK, 2, {}),
      Raw(<<2024, 1, 5, 17>>, 2, 10, MUG, UK, 1, {}),
      Raw(<<2024, 1, 20, 9>>, 2, 20, CUP, UK, 1, {}),
      Raw(<<2024, 2, 5, 9>>,  1, 10, CUP, FR, 0 - 1, {}),
      Raw(<<2023, 12, 5, 9>>, 2, 20, CUP, UK, 4, {}),
      Raw(<<2024, 1, 5, 9>>,  0, 10, MUG, UK, 2, {"CustomerID"}),
      Raw(<<2024, 1, 20, 9>>, 2, 20, CUP, <<>>, 1, {"Country"}) }

\* ---------------------------------------------------------------- transform
\* mutant: the clean-up looks at every column but CustomerID
dropna_but_customer(r) == r.nulls \subseteq {"CustomerID"}

\* mutant: the clean-up looks at the required columns only
dropna_required(r) == r.nulls \cap required_columns = {}

\* df.dropna(): a row stays when no column of it is null
dropna(r) == r.nulls = {}

date_id(ts) == <<ts[1], ts[2], ts[3]>>
month(ts)   == <<ts[1], ts[2]>>
quarter(ts) == ((ts[2] - 1) \div 3) + 1

\* the positions of s that drop_duplicates keeps (first occurrence of each key)
FirstOccurrences(keys) ==
    {i \in DOMAIN keys : \A j \in 1..(i - 1) : keys[j] # keys[i]}

\* mutant: dim_date keeps one row per raw row (no drop_duplicates)
DimDate_all_rows(df) ==
    [i \in DOMAIN df |->
        [date_id |-> date_id(df[i].InvoiceDate),
         InvoiceDate |-> df[i].InvoiceDate,
         year |-> df[i].InvoiceDate[1],
         month |-> month(df[i].InvoiceDate),
         quarter |-> quarter(df[i].InvoiceDate)]]

DimDate(df) ==
    LET rows == [i \in DOMAIN df |->
                   [date_id |-> date_id(df[i].InvoiceDate),
                    InvoiceDate |-> df[i].InvoiceDate,
                    year |-> df[i].InvoiceDate[1],
                    month |-> month(df[i].InvoiceDate),
                    quarter |-> quarter(df[i].InvoiceDate)]]
         keys == [i \in DOMAIN df |-> rows[i].date_id]
    IN  PickFrom(rows, FirstOccurrences(keys), 1)

DimCustomer(df) ==
    LET rows == [i \in DOMAIN df |->
                   [CustomerID |-> df[i].CustomerID, Country |-> df[i].Country]]
    IN  PickFrom(rows, FirstOccurrences(rows), 1)

DimProduct(df) ==
    LET rows == [i \in DOMAIN df |->
                   [StockCode |-> df[i].StockCode, Description |-> df[i].Description]]
    IN  PickFrom(rows, FirstOccurrences(rows), 1)

FactSales(df) ==
    [i \in DOMAIN df |->
        [date_id |-> date_id(df[i].InvoiceDate),
         CustomerID |-> df[i].CustomerID,
         StockCode |-> df[i].StockCode,
         Quantity |-> df[i].Quantity,
         revenue |-> df[i].Quantity * df[i].UnitPrice]]

\* lines 22-46 of run_etl: the four frames built from the raw table
Transform(log) ==
    LET df == SelectSeq(log, dropna)
    IN  [dim_date |-> DimDate(df), dim_customer |-> DimCustomer(df),
         dim_product |-> DimProduct(df), fact_sales |-> FactSales(df)]

\* --------------------------------------------------------------- aggregates
\* fact_sales fs JOIN dim_date dd ON fs.date_id = dd.date_id
JoinDate(fs, dd) ==
    {p \in (DOMAIN fs) \X (DOMAIN dd) : fs[p[1]].date_id = dd[p[2]].date_id}

\* ... JOIN dim_product p ON fs.StockCode = p.StockCode
JoinDateProduct(fs, dd, dp) ==
    {t \in (DOMAIN fs) \X (DOMAIN dd) \X (DOMAIN dp) :
        /\ fs[t[1]].date_id = dd[t[2]].date_id
        /\ fs[t[1]].StockCode = dp[t[3]].StockCode}

\* SELECT month, SUM(revenue) ... GROUP BY month ORDER BY month
MonthlySales(fs, dd) ==
    LET J      == JoinDate(fs, dd)
        rev    == [p \in J |-> fs[p[1]].revenue]
        key(p) == <<dd[p[2]].month>>
        keys   == SortKeys({key(p) : p \in J})
    IN  [k \in DOMAIN keys |->
            [month |-> keys[k][1],
             TotalRevenue |-> SumOver(rev, {p \in J : key(p) = keys[k]})]]

\* the same query with ORDER BY month, CustomerID
MonthlyCustomer_month_first(fs, dd) ==
    LET J      == JoinDate(fs, dd)
        rev    == [p \in J |-> fs[p[1]].revenue]
        key(p) == << dd[p[2]].month, <<fs[p[1]].CustomerID>> >>
        keys   == SortKeys({key(p) : p \in J})
    IN  [k \in DOMAIN keys |->
            [month |-> keys[k][1],
             CustomerID |-> keys[k][2][1],
             TotalRevenue |-> SumOver(rev, {p \in J : key(p) = keys[k]})]]

\* ... GROUP BY month, CustomerID ORDER BY CustomerID, month
MonthlyCustomer(fs, dd) ==
    LET J      == JoinDate(fs, dd)
        rev    == [p \in J |-> fs[p[1]].revenue]
        key(p) == << <<fs[p[1]].CustomerID>>, dd[p[2]].month >>
        keys   == SortKeys({key(p) : p \in J})
    IN  [k \in DOMAIN keys |->
            [month |-> keys[k][2],
             CustomerID |-> keys[k][1][1],
             TotalRevenue |-> SumOver(rev, {p \in J : key(p) = keys[k]})]]

\* ... GROUP BY month, p.Description ORDER BY p.Description, month
MonthlyProduct(fs, dd, dp) ==
    LET J      == JoinDateProduct(fs, dd, dp)
        rev    == [t \in J |-> fs[t[1]].revenue]
        key(t) == << dp[t[3]].Description, dd[t[2]].month >>
        keys   == SortKeys({key(t) : t \in J})
    IN  [k \in DOMAIN keys |->
            [month |-> keys[k][2],
             Description |-> keys[k][1],
             TotalRevenue |-> SumOver(rev, {t \in J : key(t) = keys[k]})]]

\* ------------------------------------------------------------------ run_etl
Tables == {"dim_date", "dim_customer", "dim_product", "fact_sales"}

NoFrames == [dim_date |-> <<>>, dim_customer |-> <<>>, dim_product |-> <<>>,
             fact_sales |-> <<>>]

\* the stored tables and the returned aggregates
Warehouse == [dim_date |-> dim_date, dim_customer |-> dim_customer,
              dim_product |-> dim_product, fact_sales |-> fact_sales,
              monthly_sales |-> monthly_sales, monthly_customer |-> monthly_customer,
              monthly_product |-> monthly_product]

Snapshot == [run |-> runs, log |-> extracted, warehouse |-> Warehouse]

NoSnapshot == [run |-> 0, log |-> <<>>, warehouse |-> <<>>]

\* mutant: to_sql(..., if_exists="append")
to_sql_append(stored, frame) == stored \o frame

\* to_sql(..., if_exists="replace"): the stored table becomes the frame
to_sql(stored, frame) == frame

\* run_etl is called: extract sales_log, clean it, build the four frames
Extract(who) ==
    /\ pc \in {"idle", "done", "aborted"}
    /\ caller' = who
    /\ runs' = runs + 1
    /\ extracted' = sales_log
    /\ frames' = Transform(sales_log)
    /\ last' = IF pc = "done" THEN Snapshot ELSE last
    /\ pc' = "load_dim_date"
    /\ UNCHANGED <<sales_log, dim_date, dim_customer, dim_product, fact_sales,
                   monthly_sales, monthly_customer, monthly_product, build>>
    /\ UNCHANGED master

\* python data/etl.py
RunETL ==
    /\ runs < MaxRuns
    /\ Extract("etl")
    /\ UNCHANGED <<tpc, ti, models, fit, forecast>>

LoadDimDate ==
    /\ pc = "load_dim_date"
    /\ dim_date' = to_sql(dim_date, frames.dim_date)
    /\ build' = [build EXCEPT !["dim_date"] = runs]
    /\ pc' = "load_dim_customer"
    /\ UNCHANGED <<sales_log, frames, dim_customer, dim_product, fact_sales,
                   monthly_sales, monthly_customer, monthly_product, runs,
                   extracted, last>>
    /\ UNCHANGED pipeline
    /\ UNCHANGED master

LoadDimCustomer ==
    /\ pc = "load_dim_customer"
    /\ dim_customer' = to_sql(dim_customer, frames.dim_customer)
    /\ build' = [build EXCEPT !["dim_customer"] = runs]
    /\ pc' = "load_dim_product"
    /\ UNCHANGED <<sales_log, frames, dim_date, dim_product, fact_sales,
                   monthly_sales, monthly_customer, monthly_product, runs,
                   extracted, last>>
    /\ UNCHANGED pipeline
    /\ UNCHANGED master

LoadDimProduct ==
    /\ pc = "load_dim_product"
    /\ dim_product' = to_sql(dim_product, frames.dim_product)
    /\ build' = [build EXCEPT !["dim_product"] = runs]
    /\ pc' = "load_fact_sales"
    /\ UNCHANGED <<sales_log, frames, dim_date, dim_customer, fact_sales,
                   monthly_sales, monthly_customer, monthly_product, runs,
                   extracted, last>>
    /\ UNCHANGED pipeline
    /\ UNCHANGED master

LoadFactSales ==
    /\ pc = "load_fact_sales"
    /\ fact_sales' = to_sql(fact_sales, frames.fact_sales)
    /\ build' = [build EXCEPT !["fact_sales"] = runs]
    /\ pc' = "aggregate"
    /\ UNCHANGED <<sales_log, frames, dim_date, dim_customer, dim_product,
                   monthly_sales, monthly_customer, monthly_product, runs,
                   extracted, last>>
    /\ UNCHANGED pipeline
    /\ UNCHANGED master

\* a to_sql call raises (store unavailable, write rejected): run_etl has no
\* handler, the exception leaves it with the tables written so far
LoadFails ==
    /\ pc \in {"load_dim_date", "load_dim_customer", "load_dim_product",
               "load_fact_sales"}
    /\ pc' = "aborted"
    /\ UNCHANGED <<sales_log, frames, dim_date, dim_customer, dim_product,
                   fact_sales, monthly_sales, monthly_customer, monthly_product,
                   build, runs, extracted, last>>
    /\ UNCHANGED pipeline
    /\ UNCHANGED master

\* the three aggregate queries over the stored tables, and the return
Aggregate ==
    /\ pc = "aggregate"
    /\ monthly_sales' = MonthlySales(fact_sales, dim_date)
    /\ monthly_customer' = MonthlyCustomer(fact_sales, dim_date)
    /\ monthly_product' = MonthlyProduct(fact_sales, dim_date, dim_product)
    /\ pc' = "done"
    /\ UNCHANGED <<sales_log, frames, dim_date, dim_customer, dim_product,
                   fact_sales, build, runs, extracted, last>>
    /\ UNCHANGED pipeline
    /\ UNCHANGED master

\* a batch of raw rows is appended to sales_log between two runs
AppendRow ==
    /\ pc \in {"idle", "done", "aborted"}
    /\ Len(sales_log) < MaxRows
    /\ \E r \in RawRows : sales_log' = Append(sales_log, r)
    /\ UNCHANGED <<pc, frames, dim_date, dim_customer, dim_product, fact_sales,
                   monthly_sales, monthly_customer, monthly_product, build, runs,
                   extracted, last>>
    /\ UNCHANGED pipeline
    /\ UNCHANGED master

\* a percentage, and whether computing it divided by zero
NoMetric == [pct |-> 0, div_by_zero |-> FALSE]

NoForecast == [scope |-> "none", name |-> <<>>, entity |-> <<>>, status |-> "none",
               loaded |-> FALSE, last_index |-> 0 - 1,
               prediction |-> 0, std_nan |-> FALSE, lower_bound |-> 0,
               upper_bound |-> 0, forecast_change |-> NoMetric,
               growth |-> NoMetric, yoy |-> NoMetric]

RECURSIVE SeqsUpTo(_, _)
SeqsUpTo(S, n) ==
    IF n = 0 THEN {<<>>}
    ELSE LET shorter == SeqsUpTo(S, n - 1)
         IN  shorter \cup {Append(s, x) : s \in shorter, x \in S}

Init ==
    /\ sales_log \in SeqsUpTo(RawRows, MaxRows - 1)
    /\ pc = "idle"
    /\ frames = NoFrames
    /\ dim_date = <<>>
    /\ dim_customer = <<>>
    /\ dim_product = <<>>
    /\ fact_sales = <<>>
    /\ monthly_sales = <<>>
    /\ monthly_customer = <<>>
    /\ monthly_product = <<>>
    /\ build = [t \in Tables |-> 0]
    /\ runs = 0
    /\ extracted = <<>>
    /\ last = NoSnapshot
    /\ caller = "etl"
    /\ tpc = "idle"
    /\ ti = 0
    /\ models = <<>>
    /\ fit = <<>>
    /\ forecast = NoForecast
    /\ sales = <<>>
    /\ today = FirstDay
    /\ ipc = "idle"

Next ==
    \/ RunETL
    \/ LoadDimDate
    \/ LoadDimCustomer
    \/ LoadDimProduct
    \/ LoadFactSales
    \/ LoadFails
    \/ Aggregate
    \/ AppendRow

Spec == Init /\ [][Next]_vars

\* ------------------------------------------------------------ artifact keys
Min(a, b) == IF a < b THEN a ELSE b

\* s[:n]
Prefix(s, n) == SubSeq(s, 1, Min(n, Len(s)))

\* str.lower() on ASCII text
lower(s) == [i \in DOMAIN s |-> IF s[i] >= 65 /\ s[i] <= 90 THEN s[i] + 32 ELSE s[i]]

\* re.sub(r'[^a-zA-Z0-9_]', '_', s)
re_sub(s) ==
    [i \in DOMAIN s |->
        IF \/ (s[i] >= 97 /\ s[i] <= 122)
           \/ (s[i] >= 65 /\ s[i] <= 90)
           \/ (s[i] >= 48 /\ s[i] <= 57)
           \/ s[i] = 95
        THEN s[i] ELSE 95]

\* s.replace(old, new) for single characters
replace(s, old, new) == [i \in DOMAIN s |-> IF s[i] = old THEN new ELSE s[i]]

TrainPrefix == 50
AppPrefix == 30

\* the trainer's safe_name
safe_name_train(desc) == Prefix(re_sub(lower(desc)), TrainPrefix)

\* the dashboard's safe_name
safe_name_app(desc) == Prefix(lower(replace(replace(desc, 32, 95), 47, 95)), AppPrefix)

\* the file models/<name>_model.pkl, by scope and the variable part of <name>
GlobalKey == [scope |-> "global", name |-> <<>>]
CustomerKey(id) == [scope |-> "customer", name |-> <<id>>]
ProductKeyTrain(desc) == [scope |-> "product", name |-> safe_name_train(desc)]
ProductKeyApp(desc) == [scope |-> "product", name |-> safe_name_app(desc)]

\* --------------------------------------------------------------- train_model
\* pd.factorize: the code of each value is the rank of its first occurrence
factorize(values) ==
    [i \in DOMAIN values |->
        LET first == CHOOSE j \in FirstOccurrences(values) : values[j] = values[i]
        IN  Cardinality({j \in FirstOccurrences(values) : j < first})]

\* mutant: the frame is used in the order given
sort_values_skipped(df) == df

\* df.sort_values("month"); a series has one row per month
sort_values(df) ==
    LET keys == SortKeys({<<df[i].month>> : i \in DOMAIN df})
    IN  [k \in DOMAIN keys |-> CHOOSE r \in Range(df) : r.month = keys[k][1]]

TestPercent == 20
MinPoints == 5

\* train_test_split(shuffle=False, test_size=0.2): the size of the test tail
n_test(n) == (n * TestPercent + 99) \div 100

\* train_model(df, name): the frame with MonthIndex, whether the split raises
\* (empty train set), and the artifact: the least-squares fit is a function of
\* the training rows, which stand for it
train_model(df) ==
    LET sorted  == sort_values(df)
        index   == factorize([i \in DOMAIN sorted |-> sorted[i].month])
        n       == Len(sorted)
        n_train == n - n_test(n)
    IN  [raises |-> n_train = 0,
         frame |-> [i \in DOMAIN sorted |->
                      [month |-> sorted[i].month,
                       TotalRevenue |-> sorted[i].TotalRevenue,
                       MonthIndex |-> index[i]]],
         artifact |-> [X |-> SubSeq(index, 1, n_train),
                       y |-> [i \in 1..n_train |-> sorted[i].TotalRevenue]]]

\* mutant: the models directory is emptied before the file is written
dump_alone(store, key, artifact) == [k \in {key} |-> artifact]

\* joblib.dump(model, filename): the file is created or overwritten
dump(store, key, artifact) ==
    [k \in (DOMAIN store) \cup {key} |-> IF k = key THEN artifact ELSE store[k]]

\* Series.unique(): the distinct values in order of first occurrence
unique(values) == PickFrom(values, FirstOccurrences(values), 1)

customer_ids == unique([k \in DOMAIN monthly_customer |-> monthly_customer[k].CustomerID])
descriptions == unique([k \in DOMAIN monthly_product |-> monthly_product[k].Description])

\* monthly_customer_df[monthly_customer_df["CustomerID"] == customer_id]
cust_df(id) ==
    LET rows == {k \in DOMAIN monthly_customer : monthly_customer[k].CustomerID = id}
    IN  PickFrom(monthly_customer, rows, 1)

\* monthly_product_df[monthly_product_df["Description"] == desc]
prod_df(desc) ==
    LET rows == {k \in DOMAIN monthly_product : monthly_product[k].Description = desc}
    IN  PickFrom(monthly_product, rows, 1)

\* the month and revenue columns of a frame
series(df) == [i \in DOMAIN df |-> [month |-> df[i].month, TotalRevenue |-> df[i].TotalRevenue]]

\* the loop the script enters after the global model
AfterGlobal == IF Len(customer_ids) > 0 THEN "customers"
               ELSE IF Len(descriptions) > 0 THEN "products" ELSE "finished"

\* python models/train_model.py: line 45, the call of run_etl
StartTraining ==
    /\ tpc \in {"idle", "finished", "raised"}
    /\ Extract("train")
    /\ tpc' = "etl"
    /\ ti' = 0
    /\ forecast' = NoForecast
    /\ UNCHANGED <<models, fit>>

\* run_etl raised in the training script
TrainingAborts ==
    /\ tpc = "etl" /\ caller = "train" /\ pc = "aborted"
    /\ tpc' = "raised"
    /\ UNCHANGED <<sales_log, pc, frames, dim_date, dim_customer, dim_product,
                   fact_sales, monthly_sales, monthly_customer, monthly_product,
                   build, runs, extracted, last, caller, ti, models, fit, forecast>>
    /\ UNCHANGED master

\* line 48: train_model(monthly_sales_df, name="global")
TrainGlobal ==
    /\ tpc = "etl" /\ caller = "train" /\ pc = "done"
    /\ LET t == train_model(series(monthly_sales))
       IN  IF t.raises
           THEN /\ tpc' = "raised"
                /\ UNCHANGED <<ti, models, fit>>
           ELSE /\ models' = dump(models, GlobalKey, t.artifact)
                /\ fit' = dump(fit, GlobalKey, t.frame)
                /\ tpc' = AfterGlobal
                /\ ti' = 1
    /\ UNCHANGED <<sales_log, pc, frames, dim_date, dim_customer, dim_product,
                   fact_sales, monthly_sales, monthly_customer, monthly_product,
                   build, runs, extracted, last, caller, forecast>>
    /\ UNCHANGED master

\* lines 51-54: one iteration of the loop over the customers
TrainCustomer ==
    /\ tpc = "customers"
    /\ LET id == customer_ids[ti]
           df == cust_df(id)
           t  == train_model(series(df))
       IN  IF Len(df) >= MinPoints
           THEN /\ models' = dump(models, CustomerKey(id), t.artifact)
                /\ fit' = dump(fit, CustomerKey(id), t.frame)
           ELSE UNCHANGED <<models, fit>>
    /\ IF ti < Len(customer_ids)
       THEN ti' = ti + 1 /\ tpc' = tpc
       ELSE ti' = 1 /\ tpc' = IF Len(descriptions) > 0 THEN "products" ELSE "finished"
    /\ UNCHANGED <<sales_log, pc, frames, dim_date, dim_customer, dim_product,
                   fact_sales, monthly_sales, monthly_customer, monthly_product,
                   build, runs, extracted, last, caller, forecast>>
    /\ UNCHANGED master

\* lines 57-62: one iteration of the loop over the product descriptions
TrainProduct ==
    /\ tpc = "products"
    /\ LET desc == descriptions[ti]
           df   == prod_df(desc)
           t    == train_model(series(df))
       IN  IF Len(df) >= MinPoints
           THEN /\ models' = dump(models, ProductKeyTrain(desc), t.artifact)
                /\ fit' = dump(fit, ProductKeyTrain(desc), t.frame)
           ELSE UNCHANGED <<models, fit>>
    /\ IF ti < Len(descriptions)
       THEN ti' = ti + 1 /\ tpc' = tpc
       ELSE ti' = 1 /\ tpc' = "finished"
    /\ UNCHANGED <<sales_log, pc, frames, dim_date, dim_customer, dim_product,
                   fact_sales, monthly_sales, monthly_customer, monthly_product,
                   build, runs, extracted, last, caller, forecast>>
    /\ UNCHANGED master

\* ---------------------------------------------------------------- dashboard
\* the dashboard names the month column of the aggregates "Month"; the model
\* takes it to be the month column run_etl returns

\* mutant: every section tests the path of the global artifact
exists_global(key) == GlobalKey \in DOMAIN models

\* os.path.exists(model_path)
exists(key) == key \in DOMAIN models

RECURSIVE max(_)
\* ndarray.max()
max(values) ==
    IF Len(values) = 1 THEN values[1]
    ELSE LET m == max(Tail(values))
         IN  IF values[1] > m THEN values[1] ELSE m

\* mutant: the index is the calendar distance from the first to the last month, plus 1
last_index_calendar(df) ==
    (df[Len(df)].month[1] * 12 + df[Len(df)].month[2])
        - (df[1].month[1] * 12 + df[1].month[2]) + 1

\* df["Month"].factorize()[0].max() + 1
last_index(df) == max(factorize([i \in DOMAIN df |-> df[i].month])) + 1

\* --------------------------------------------------------- dashboard numbers
\* amounts and percentages are kept to one decimal: a float v is the integer
\* part of v * Resolution
Resolution == 10

\* 1.96, in hundredths
Z95 == 196

\* the number of rows the year-over-year card needs
YearBack == 13

\* a / b rounded down, for b of either sign
fdiv(a, b) == IF b < 0 THEN (0 - a) \div (0 - b) ELSE a \div b

RECURSIVE sqrt_between(_, _, _)
\* the largest r in lo..hi with r * r <= v
sqrt_between(v, lo, hi) ==
    IF lo >= hi THEN lo
    ELSE LET mid == (lo + hi + 1) \div 2
         IN  IF mid <= v \div mid THEN sqrt_between(v, mid, hi)
             ELSE sqrt_between(v, lo, mid - 1)

sqrt(v) == sqrt_between(v, 0, v)

Sum(values) == SumOver(values, DOMAIN values)

\* Series.std(): the sample standard deviation (ddof = 1) of two values or more
std(values) ==
    LET n  == Len(values)
        sq == [i \in DOMAIN values |-> values[i] * values[i]]
    IN  sqrt((n * Sum(sq) - Sum(values) * Sum(values)) \div (n * (n - 1)))

\* model.predict([[x]]) of the least-squares line through the training rows
predict(artifact, x) ==
    LET X   == artifact.X
        y   == artifact.y
        n   == Len(X)
        Sx  == Sum(X)
        Sy  == Sum(y)
        Sxx == Sum([i \in DOMAIN X |-> X[i] * X[i]])
        Sxy == Sum([i \in DOMAIN X |-> X[i] * y[i]])
        D   == n * Sxx - Sx * Sx
    IN  IF D = 0 THEN fdiv(Sy * Resolution, n)
        ELSE fdiv((Sy * D + (n * Sxy - Sx * Sy) * (n * x - Sx)) * Resolution, n * D)

\* (a / b) * 100 on floats: a zero b gives inf or nan
divide_pct(a, b) ==
    IF b = 0 THEN [pct |-> 0, div_by_zero |-> TRUE]
    ELSE [pct |-> fdiv(a * 100 * Resolution, b), div_by_zero |-> FALSE]

abs(v) == IF v < 0 THEN 0 - v ELSE v

\* calculate_growth_metrics(df, "TotalRevenue"): growth_pct
calculate_growth_metrics(df) ==
    IF Len(df) < 2 THEN NoMetric
    ELSE LET current  == df[Len(df)].TotalRevenue
             previous == df[Len(df) - 1].TotalRevenue
         IN  IF previous = 0
             THEN [pct |-> IF current > 0 THEN 100 * Resolution ELSE 0,
                   div_by_zero |-> FALSE]
             ELSE divide_pct(current - previous, abs(previous))

\* the year-over-year card of the global tab
yoy_change(df) ==
    IF Len(df) >= YearBack
    THEN divide_pct(df[Len(df)].TotalRevenue - df[Len(df) - YearBack + 1].TotalRevenue,
                    df[Len(df) - YearBack + 1].TotalRevenue)
    ELSE NoMetric

\* mutant: the deviation is taken over the chart's frame, forecast row included
iloc_all(values) == values

\* .iloc[:-1]
iloc_but_last(values) == SubSeq(values, 1, Len(values) - 1)

\* max(0, v)
max_of_zero(v) == IF v > 0 THEN v ELSE 0

\* the numbers of a forecast section that found its artifact: the prediction,
\* the band around it and the change against the last month
numbers(scope, artifact, df) ==
    LET revenue     == [i \in DOMAIN df |-> df[i].TotalRevenue * Resolution]
        prediction  == predict(artifact, last_index(df))
        forecast_df == Append(revenue, prediction)
        history     == IF scope = "global" THEN revenue ELSE iloc_but_last(forecast_df)
        nan         == Len(history) < 2
        half        == IF nan THEN 0 ELSE (Z95 * std(history)) \div 100
        last_value  == revenue[Len(revenue)]
    IN  [prediction |-> prediction,
         std_nan |-> nan,
         lower_bound |-> IF nan THEN 0 ELSE max_of_zero(prediction - half),
         upper_bound |-> IF nan THEN 0 ELSE prediction + half,
         forecast_change |->
            IF scope = "global" THEN divide_pct(prediction - last_value, last_value)
            ELSE IF last_value # 0 THEN divide_pct(prediction - last_value, last_value)
            ELSE NoMetric]

NoNumbers == [prediction |-> 0, std_nan |-> FALSE, lower_bound |-> 0,
              upper_bound |-> 0, forecast_change |-> NoMetric]

\* what a tab shows: the growth cards and the outcome of its forecast section
Shown(scope, entity, key, df, status, loaded, index, num) ==
    [scope |-> scope, name |-> key.name, entity |-> entity, status |-> status,
     loaded |-> loaded, last_index |-> index,
     prediction |-> num.prediction, std_nan |-> num.std_nan,
     lower_bound |-> num.lower_bound, upper_bound |-> num.upper_bound,
     forecast_change |-> num.forecast_change,
     growth |-> calculate_growth_metrics(df),
     yoy |-> IF scope = "global" THEN yoy_change(df) ELSE NoMetric]

\* a forecast section: the branch on the artifact's file, the load (which
\* raises on a missing file), the index (which raises on an empty frame), the
\* prediction and its band
forecast_section(scope, entity, key, df) ==
    IF exists(key)
    THEN IF key \notin DOMAIN models \/ Len(df) = 0
         THEN Shown(scope, entity, key, df, "raised", TRUE, 0 - 1, NoNumbers)
         ELSE Shown(scope, entity, key, df, "predicted", TRUE, last_index(df),
                    numbers(scope, models[key], df))
    ELSE Shown(scope, entity, key, df, "not_available", FALSE, 0 - 1, NoNumbers)

\* a dashboard session starts: load_data() calls run_etl
StartSession ==
    /\ tpc \in {"idle", "finished", "raised"}
    /\ Extract("app")
    /\ forecast' = NoForecast
    /\ UNCHANGED <<tpc, ti, models, fit>>

Rendering == caller = "app" /\ pc = "done"

\* the forecast section of the global tab
ForecastGlobal ==
    /\ Rendering
    /\ forecast' = forecast_section("global", <<>>, GlobalKey, monthly_sales)
    /\ UNCHANGED <<sales_log, pc, frames, dim_date, dim_customer, dim_product,
                   fact_sales, monthly_sales, monthly_customer, monthly_product,
                   build, runs, extracted, last, caller, tpc, ti, models, fit>>
    /\ UNCHANGED master

\* the forecast section of the customer tab, for the customer selected
ForecastCustomer ==
    /\ Rendering
    /\ \E selected_id \in Range(customer_ids) :
          forecast' = forecast_section("customer", <<selected_id>>,
                                       CustomerKey(selected_id), cust_df(selected_id))
    /\ UNCHANGED <<sales_log, pc, frames, dim_date, dim_customer, dim_product,
                   fact_sales, monthly_sales, monthly_customer, monthly_product,
                   build, runs, extracted, last, caller, tpc, ti, models, fit>>
    /\ UNCHANGED master

\* the forecast section of the product tab, for the product selected
ForecastProduct ==
    /\ Rendering
    /\ \E selected_prod \in Range(descriptions) :
          forecast' = forecast_section("product", selected_prod,
                                       ProductKeyApp(selected_prod), prod_df(selected_prod))
    /\ UNCHANGED <<sales_log, pc, frames, dim_date, dim_customer, dim_product,
                   fact_sales, monthly_sales, monthly_customer, monthly_product,
                   build, runs, extracted, last, caller, tpc, ti, models, fit>>
    /\ UNCHANGED master

\* ------------------------------------------------- the pipeline specification
MaxCalls == 2

T_L == <<84, 45, 76>>

\* the months a customer buys a product in
MonthSets ==
    { {},
      {<<2024, 1>>},
      {<<2023, 11>>, <<2023, 12>>, <<2024, 1>>, <<2024, 2>>},
      {<<2023, 11>>, <<2023, 12>>, <<2024, 1>>, <<2024, 2>>, <<2024, 3>>},
      {<<2023, 11>>, <<2023, 12>>, <<2024, 1>>, <<2024, 3>>, <<2024, 4>>} }

\* one raw row per month of the set, for one customer and one product
CellRows(cust, stock, desc, months) ==
    LET keys == SortKeys({<<m>> : m \in months})
    IN  [k \in DOMAIN keys |->
            Raw(<<keys[k][1][1], keys[k][1][2], 5, 9>>, cust, stock, desc, UK,
                keys[k][1][2] + cust, {})]

PipelineLogs ==
    { CellRows(1, 10, MUG, a) \o CellRows(2, 10, MUG, b) \o CellRows(1, 20, T_L, c) :
        a \in MonthSets, b \in MonthSets, c \in MonthSets }

\* the batches appended to sales_log between two runs: a sale in a new month,
\* alone or followed by the return of as much by another customer
NewRows ==
    { << Raw(<<2024, 5, 5, 9>>, 1, 10, MUG, UK, 2, {}) >>,
      << Raw(<<2024, 5, 5, 9>>, 1, 10, MUG, UK, 2, {}),
         Raw(<<2024, 5, 6, 9>>, 2, 10, MUG, UK, 0 - 2, {}) >> }

AppendBatch ==
    /\ pc \in {"idle", "done", "aborted"}
    /\ \E daily_data \in NewRows :
          /\ Range(daily_data) \cap Range(sales_log) = {}
          /\ sales_log' = sales_log \o daily_data
    /\ UNCHANGED <<pc, frames, dim_date, dim_customer, dim_product, fact_sales,
                   monthly_sales, monthly_customer, monthly_product, build, runs,
                   extracted, last>>
    /\ UNCHANGED pipeline
    /\ UNCHANGED master

InitPipeline ==
    /\ sales_log \in PipelineLogs
    /\ pc = "idle"
    /\ frames = NoFrames
    /\ dim_date = <<>>
    /\ dim_customer = <<>>
    /\ dim_product = <<>>
    /\ fact_sales = <<>>
    /\ monthly_sales = <<>>
    /\ monthly_customer = <<>>
    /\ monthly_product = <<>>
    /\ build = [t \in Tables |-> 0]
    /\ runs = 0
    /\ extracted = <<>>
    /\ last = NoSnapshot
    /\ caller = "etl"
    /\ tpc = "idle"
    /\ ti = 0
    /\ models = <<>>
    /\ fit = <<>>
    /\ forecast = NoForecast
    /\ sales = <<>>
    /\ today = FirstDay
    /\ ipc = "idle"

NextPipeline ==
    \/ (runs < MaxCalls /\ StartTraining)
    \/ (runs < MaxCalls /\ StartSession)
    \/ LoadDimDate
    \/ LoadDimCustomer
    \/ LoadDimProduct
    \/ LoadFactSales
    \/ LoadFails
    \/ Aggregate
    \/ TrainingAborts
    \/ TrainGlobal
    \/ TrainCustomer
    \/ TrainProduct
    \/ ForecastGlobal
    \/ ForecastCustomer
    \/ ForecastProduct
    \/ AppendBatch

SpecPipeline == InitPipeline /\ [][NextPipeline]_vars

\* ------------------------------------------- train_model on any row order
MaxSeries == 5

IndexMonths == {<<2023, 11>>, <<2023, 12>>, <<2024, 1>>, <<2024, 3>>, <<2024, 4>>,
                <<2024, 10>>}

\* the frames of n rows, one row per month, in every row order
FramesOf(n) ==
    { [i \in 1..n |-> [month |-> f[i], TotalRevenue |-> f[i][2]]] :
        f \in {g \in [1..n -> IndexMonths] : \A i, j \in 1..n : i # j => g[i] # g[j]} }

\* the script is at line 48 with a frame of any row order in monthly_sales_df
InitIndex ==
    /\ sales_log = <<>>
    /\ pc = "done"
    /\ frames = NoFrames
    /\ dim_date = <<>>
    /\ dim_customer = <<>>
    /\ dim_product = <<>>
    /\ fact_sales = <<>>
    /\ monthly_sales \in UNION {FramesOf(n) : n \in 2..MaxSeries}
    /\ monthly_customer = <<>>
    /\ monthly_product = <<>>
    /\ build = [t \in Tables |-> 0]
    /\ runs = 1
    /\ extracted = <<>>
    /\ last = NoSnapshot
    /\ caller = "train"
    /\ tpc = "etl"
    /\ ti = 0
    /\ models = <<>>
    /\ fit = <<>>
    /\ forecast = NoForecast
    /\ sales = <<>>
    /\ today = FirstDay
    /\ ipc = "idle"

NextIndex == TrainGlobal

SpecIndex == InitIndex /\ [][NextIndex]_vars

\* ------------------------------------- the model store over successive runs
\* the logs an import of the workbook leaves: customers 1 and 2 buying product 10
StoreLogs ==
    { CellRows(1, 10, MUG, a) \o CellRows(2, 10, MUG, b) :
        a \in MonthSets, b \in {{}, {<<2024, 1>>}} }

\* python scripts/excel_to_pg.py: sales_log is replaced by the rows of the workbook
Reimport ==
    /\ pc \in {"idle", "done", "aborted"}
    /\ tpc \in {"idle", "finished", "raised"}
    /\ \E df \in StoreLogs :
          /\ df # sales_log
          /\ sales_log' = df
    /\ UNCHANGED <<pc, frames, dim_date, dim_customer, dim_product, fact_sales,
                   monthly_sales, monthly_customer, monthly_product, build, runs,
                   extracted, last>>
    /\ UNCHANGED pipeline
    /\ UNCHANGED master

\* python data/etl.py, run between two runs of the training script
RunETLBetween ==
    /\ tpc \in {"idle", "finished", "raised"}
    /\ runs < MaxCalls
    /\ Extract("etl")
    /\ UNCHANGED <<tpc, ti, models, fit, forecast>>

InitStore ==
    /\ sales_log \in StoreLogs
    /\ pc = "idle"
    /\ frames = NoFrames
    /\ dim_date = <<>>
    /\ dim_customer = <<>>
    /\ dim_product = <<>>
    /\ fact_sales = <<>>
    /\ monthly_sales = <<>>
    /\ monthly_customer = <<>>
    /\ monthly_product = <<>>
    /\ build = [t \in Tables |-> 0]
    /\ runs = 0
    /\ extracted = <<>>
    /\ last = NoSnapshot
    /\ caller = "etl"
    /\ tpc = "idle"
    /\ ti = 0
    /\ models = <<>>
    /\ fit = <<>>
    /\ forecast = NoForecast
    /\ sales = <<>>
    /\ today = FirstDay
    /\ ipc = "idle"

NextStore ==
    \/ (runs < MaxCalls /\ StartTraining)
    \/ RunETLBetween
    \/ Reimport
    \/ LoadDimDate
    \/ LoadDimCustomer
    \/ LoadDimProduct
    \/ LoadFactSales
    \/ LoadFails
    \/ Aggregate
    \/ TrainingAborts
    \/ TrainGlobal
    \/ TrainCustomer
    \/ TrainProduct

SpecStore == InitStore /\ [][NextStore]_vars

\* ------------------------------------------------- the daily insert script
MaxMaster == 120
MaxDays == 2

\* the rows the script takes per day
BatchSize == 100

\* row i of the master table sales, which has no tracking columns
MasterRow(i) ==
    [InvoiceNo |-> i, StockCode |-> 10, Description |-> MUG, Quantity |-> 1,
     InvoiceDate |-> <<2024, 1, 5, 9>>, UnitPrice |-> 3, CustomerID |-> 1,
     Country |-> UK, nulls |-> {}]

\* the row with the tracking columns: source 1 is "initial_import", 2 is
\* "auto_simulation"
tracked(r, at, src) ==
    [InvoiceNo |-> r.InvoiceNo, StockCode |-> r.StockCode, Description |-> r.Description,
     Quantity |-> r.Quantity, InvoiceDate |-> r.InvoiceDate, UnitPrice |-> r.UnitPrice,
     CustomerID |-> r.CustomerID, Country |-> r.Country,
     inserted_at |-> at, source |-> src, nulls |-> r.nulls]

\* df.iloc[a:b] for 0 <= a and b <= len(df)
iloc(df, a, b) == SubSeq(df, a + 1, b)

hash_id(df, day) == day % Len(df)
start(df, day) == (hash_id(df, day) * BatchSize) % Len(df)
end(df, day) == (start(df, day) + BatchSize) % Len(df)

\* lines 22-25: the slice, or the two slices around the end of the table
daily_data(df, day) ==
    IF start(df, day) < end(df, day)
    THEN iloc(df, start(df, day), end(df, day))
    ELSE iloc(df, start(df, day), Len(df)) \o iloc(df, 0, end(df, day))

\* python data/data_insert.py: with an empty master table line 17 raises
\* ZeroDivisionError
DailyInsert ==
    /\ ipc = "idle"
    /\ IF Len(sales) = 0
       THEN /\ ipc' = "raised"
            /\ UNCHANGED sales_log
       ELSE /\ sales_log' = sales_log \o
                    [k \in DOMAIN daily_data(sales, today) |->
                        tracked(daily_data(sales, today)[k], today, 2)]
            /\ ipc' = "inserted"
    /\ UNCHANGED <<sales, today>>
    /\ UNCHANGED <<pc, frames, dim_date, dim_customer, dim_product, fact_sales,
                   monthly_sales, monthly_customer, monthly_product, build, runs,
                   extracted, last>>
    /\ UNCHANGED pipeline

\* the script is started again the day after
NextDay ==
    /\ ipc # "idle"
    /\ today < FirstDay + MaxDays
    /\ today' = today + 1
    /\ ipc' = "idle"
    /\ UNCHANGED <<sales_log, sales>>
    /\ UNCHANGED <<pc, frames, dim_date, dim_customer, dim_product, fact_sales,
                   monthly_sales, monthly_customer, monthly_product, build, runs,
                   extracted, last>>
    /\ UNCHANGED pipeline

\* after excel_to_pg.py: sales holds the workbook, sales_log the same rows tracked
InitInsert ==
    /\ \E n \in 0..MaxMaster : sales = [i \in 1..n |-> MasterRow(i)]
    /\ sales_log = [i \in DOMAIN sales |-> tracked(sales[i], FirstDay, 1)]
    /\ today = FirstDay
    /\ ipc = "idle"
    /\ pc = "idle"
    /\ frames = NoFrames
    /\ dim_date = <<>>
    /\ dim_customer = <<>>
    /\ dim_product = <<>>
    /\ fact_sales = <<>>
    /\ monthly_sales = <<>>
    /\ monthly_customer = <<>>
    /\ monthly_product = <<>>
    /\ build = [t \in Tables |-> 0]
    /\ runs = 0
    /\ extracted = <<>>
    /\ last = NoSnapshot
    /\ caller = "etl"
    /\ tpc = "idle"
    /\ ti = 0
    /\ models = <<>>
    /\ fit = <<>>
    /\ forecast = NoForecast

NextInsert ==
    \/ DailyInsert
    \/ NextDay

SpecInsert == InitInsert /\ [][NextInsert]_vars

\* ================================================================== claims
revenue_of(fs) == [i \in DOMAIN fs |-> fs[i].revenue]
month_of_date_id(d) == <<d[1], d[2]>>
FactMonths == {month_of_date_id(fact_sales[i].date_id) : i \in DOMAIN fact_sales}

\* C1: after run_etl, the global aggregate has exactly one entry per month
\* that has a fact row, and its TotalRevenue is the sum of the revenue of the
\* fact_sales rows dated in that month.
C1_MonthlyRevenueIsFactSum ==
    pc = "done" =>
        /\ {monthly_sales[k].month : k \in DOMAIN monthly_sales} = FactMonths
        /\ Len(monthly_sales) = Cardinality(FactMonths)
        /\ \A k \in DOMAIN monthly_sales :
              monthly_sales[k].TotalRevenue =
                SumOver(revenue_of(fact_sales),
                        {i \in DOMAIN fact_sales :
                           month_of_date_id(fact_sales[i].date_id) = monthly_sales[k].month})

\* a completed run with two fact rows of one date and a third of the same month
C1_Witness ==
    /\ pc = "done"
    /\ \E i, j, k \in DOMAIN fact_sales :
          /\ i < j
          /\ fact_sales[i].date_id = fact_sales[j].date_id
          /\ fact_sales[k].date_id # fact_sales[i].date_id
          /\ month_of_date_id(fact_sales[k].date_id) = month_of_date_id(fact_sales[i].date_id)

\* C5: a run that completes right after a completed run on the same sales_log
\* leaves the four tables and the three aggregates as that run left them.
C5_RerunIsIdempotent ==
    (pc = "done" /\ last.run > 0 /\ last.run = runs - 1 /\ last.log = extracted)
        => last.warehouse = Warehouse

C5_Witness ==
    /\ pc = "done" /\ last.run > 0 /\ last.run = runs - 1 /\ last.log = extracted
    /\ Len(fact_sales) >= 2
    /\ Len(dim_product) >= 2

\* C6: a raw row with a null customer_id gives no fact_sales row and no entry
\* of an aggregate: every fact row is the projection of a raw row that has a
\* customer_id, there are no more fact rows than such raw rows, every customer
\* entry names the customer of such a row, every product entry the month of
\* such a row, and the totals of the global and the customer aggregate (and of
\* the product aggregate, when no stock code has two descriptions) are the
\* total of the fact rows.
HasCustomer(r) == "CustomerID" \notin r.nulls
Total(agg) == SumOver([k \in DOMAIN agg |-> agg[k].TotalRevenue], DOMAIN agg)

C6_NullCustomerDropped ==
    /\ \A i \in DOMAIN fact_sales :
          \E j \in DOMAIN sales_log :
            /\ HasCustomer(sales_log[j])
            /\ fact_sales[i] = FactSales(<<sales_log[j]>>)[1]
    /\ pc \in {"aggregate", "done"} =>
          Len(fact_sales) <= Len(SelectSeq(extracted, HasCustomer))
    /\ \A k \in DOMAIN monthly_customer :
          \E j \in DOMAIN sales_log :
            /\ HasCustomer(sales_log[j])
            /\ monthly_customer[k].CustomerID = sales_log[j].CustomerID
    /\ \A k \in DOMAIN monthly_product :
          \E j \in DOMAIN sales_log :
            /\ HasCustomer(sales_log[j])
            /\ monthly_product[k].month = month(sales_log[j].InvoiceDate)
    /\ pc = "done" =>
          /\ Total(monthly_sales) = SumOver(revenue_of(fact_sales), DOMAIN fact_sales)
          /\ Total(monthly_customer) = SumOver(revenue_of(fact_sales), DOMAIN fact_sales)
          /\ Cardinality({dim_product[i].StockCode : i \in DOMAIN dim_product})
                = Len(dim_product)
               => Total(monthly_product) = SumOver(revenue_of(fact_sales), DOMAIN fact_sales)

\* a completed run over a log that holds a row without customer_id and a complete row
C6_Witness ==
    /\ pc = "done"
    /\ \E j \in DOMAIN extracted : ~HasCustomer(extracted[j])
    /\ Len(fact_sales) >= 1

\* C7: every raw row whose seven required columns are non-null gives a fact row.
HasRequired(r) == r.nulls \cap required_columns = {}

C7_OnlyRequiredColumnsDrop ==
    pc = "done" => Len(fact_sales) = Len(SelectSeq(extracted, HasRequired))

\* C8: once a build has completed, the four stored tables stem from one build
\* in every state.
C8_TablesFromOneBuild ==
    build["fact_sales"] > 0 => \A t \in Tables : build[t] = build["fact_sales"]

\* chronological order of two month keys
MonthBefore(a, b) == a[1] < b[1] \/ (a[1] = b[1] /\ a[2] < b[2])
MonthsOf(df) == {df[i].month : i \in DOMAIN df}

\* C2: an entity whose series has fewer than 5 points gets no artifact in a
\* training run, and the run does not raise on it.
C2_UndersizedSkipped ==
    /\ ~(tpc = "raised" /\ pc = "done")
    /\ \A key \in DOMAIN fit : Len(fit[key]) >= MinPoints

\* C3: for a series of at least 5 months, the MonthIndex of a row is the
\* number of months of the series that lie before the row's month: 0 for the
\* earliest month and one more for each next month, whatever the calendar
\* gaps and the row order of the input.
C3_MonthIndexIsChronologicalRank ==
    \A key \in DOMAIN fit :
        Len(fit[key]) >= MinPoints =>
            /\ key = GlobalKey =>
                  /\ MonthsOf(fit[key]) = MonthsOf(monthly_sales)
                  /\ Len(fit[key]) = Len(monthly_sales)
            /\ \A i \in DOMAIN fit[key] :
                  fit[key][i].MonthIndex =
                    Cardinality({m \in MonthsOf(fit[key]) : MonthBefore(m, fit[key][i].month)})

\* a fitted series of 5 months given latest month first, with a calendar gap
C3_Witness ==
    /\ GlobalKey \in DOMAIN fit
    /\ Len(fit[GlobalKey]) >= MinPoints
    /\ MonthBefore(monthly_sales[2].month, monthly_sales[1].month)
    /\ <<2024, 1>> \in MonthsOf(monthly_sales)
    /\ <<2024, 3>> \in MonthsOf(monthly_sales)

\* the frame of the entity a forecast section was rendered for
EntityFrame ==
    IF forecast.scope = "global" THEN series(monthly_sales)
    ELSE IF forecast.scope = "customer" THEN series(cust_df(forecast.entity[1]))
    ELSE series(prod_df(forecast.entity))

ForecastKey == [scope |-> forecast.scope, name |-> forecast.name]

\* C4: in each scope, a forecast section rendered with no artifact under its
\* key loads nothing, computes no index and ends in "not available"; with an
\* artifact under the key it does not end there.
C4_NoArtifactNotAvailable ==
    forecast.scope # "none" =>
        /\ ForecastKey \notin DOMAIN models =>
              /\ forecast.status = "not_available"
              /\ ~forecast.loaded
              /\ forecast.last_index = 0 - 1
        /\ ForecastKey \in DOMAIN models => forecast.status # "not_available"

\* a customer section without artifact while the global artifact exists
C4_Witness ==
    /\ forecast.scope = "customer"
    /\ forecast.status = "not_available"
    /\ GlobalKey \in DOMAIN models

\* C9: the product section looks a trained product up under the key the
\* trainer stored it under, and so finds it.
C9_TrainedProductFound ==
    (forecast.scope = "product" /\ ProductKeyTrain(forecast.entity) \in DOMAIN models)
        => /\ forecast.name = safe_name_train(forecast.entity)
           /\ forecast.status = "predicted"

Consecutive(df) == {k \in DOMAIN df : k + 1 \in DOMAIN df}
NotAfter(a, b) == a = b \/ MonthBefore(a, b)

\* C11 (as stated): each of the three aggregates returned by run_etl is
\* sorted ascending with month as the primary sort key: along each aggregate
\* the month never decreases from one row to the next.
C11_MonthIsPrimaryKey ==
    pc = "done" =>
        /\ \A k \in Consecutive(monthly_sales) :
              NotAfter(monthly_sales[k].month, monthly_sales[k + 1].month)
        /\ \A k \in Consecutive(monthly_customer) :
              NotAfter(monthly_customer[k].month, monthly_customer[k + 1].month)
        /\ \A k \in Consecutive(monthly_product) :
              NotAfter(monthly_product[k].month, monthly_product[k + 1].month)

\* C11 (amended): the global aggregate is strictly ascending by month; the
\* customer aggregate is ascending by CustomerID first and strictly ascending
\* by month within one customer; the product aggregate is ascending by
\* Description first and strictly ascending by month within one description.
C11_EntityIsPrimaryKey ==
    pc = "done" =>
        /\ \A k \in Consecutive(monthly_sales) :
              MonthBefore(monthly_sales[k].month, monthly_sales[k + 1].month)
        /\ \A k \in Consecutive(monthly_customer) :
              LET a == monthly_customer[k]
                  b == monthly_customer[k + 1]
              IN  \/ a.CustomerID < b.CustomerID
                  \/ a.CustomerID = b.CustomerID /\ MonthBefore(a.month, b.month)
        /\ \A k \in Consecutive(monthly_product) :
              LET a == monthly_product[k]
                  b == monthly_product[k + 1]
              IN  \/ SeqLess(a.Description, b.Description)
                  \/ a.Description = b.Description /\ MonthBefore(a.month, b.month)

\* a customer aggregate where a later month of one customer precedes an
\* earlier month of the next customer
C11_Witness ==
    /\ pc = "done"
    /\ \E k \in Consecutive(monthly_customer) :
          /\ monthly_customer[k].CustomerID < monthly_customer[k + 1].CustomerID
          /\ MonthBefore(monthly_customer[k + 1].month, monthly_customer[k].month)

\* ---------------------------------------------------------------------- C12
NothingSurvives(log) == \A i \in DOMAIN log : log[i].nulls # {}

\* C12: when no row that a run of run_etl read survives the clean-up (the
\* log was empty, or every row of it had a null column), the run reaches its
\* return and the three aggregates it returns have no rows.
C12_EmptyAfterCleaning ==
    (pc = "done" /\ NothingSurvives(extracted)) =>
        /\ monthly_sales = <<>>
        /\ monthly_customer = <<>>
        /\ monthly_product = <<>>

\* a run that returned after reading a non-empty log of rows with nulls only
C12_Witness ==
    /\ pc = "done"
    /\ Len(extracted) >= 2
    /\ NothingSurvives(extracted)
    /\ monthly_sales = <<>>

\* ---------------------------------------------------------------------- C13
HistoricalRevenue == [i \in DOMAIN EntityFrame |-> EntityFrame[i].TotalRevenue * Resolution]

LastRevenue == EntityFrame[Len(EntityFrame)].TotalRevenue

\* C14: no growth or change percentage a tab shows (month over month, year
\* over year, forecast change) is computed by dividing by zero, and a forecast
\* change against a last month of zero revenue is shown as 0% or 100%.
C14_ZeroDenominatorSpecialCased ==
    forecast.scope # "none" =>
        /\ ~forecast.growth.div_by_zero
        /\ ~forecast.yoy.div_by_zero
        /\ ~forecast.forecast_change.div_by_zero
        /\ (forecast.status = "predicted" /\ LastRevenue = 0) =>
              forecast.forecast_change.pct \in {0, 100 * Resolution}

\* ---------------------------------------------------------------------- C15
\* C15: from the start of a dashboard session to the forecast shown, no step
\* of the read path (load_data and the forecast sections) writes one of the
\* four warehouse tables or a model artifact.
C15_ReadPathWritesNothing ==
    [][caller' = "app" =>
          /\ build' = build
          /\ <<dim_date', dim_customer', dim_product', fact_sales'>> =
                <<dim_date, dim_customer, dim_product, fact_sales>>
          /\ models' = models]_vars

\* ---------------------------------------------------------------------- C16
OneRowPerKey(table, key(_)) ==
    \A i, j \in DOMAIN table : key(table[i]) = key(table[j]) => i = j

KeyDate(r) == r.date_id
KeyCustomer(r) == r.CustomerID
KeyProduct(r) == r.StockCode

\* C16: after run_etl each dimension table has at most one row per natural
\* key: date_id in dim_date, CustomerID in dim_customer (also for a customer
\* seen with two countries), StockCode in dim_product (also for a stock code
\* seen with two descriptions).
C16_OneRowPerNaturalKey ==
    pc = "done" =>
        /\ OneRowPerKey(dim_date, KeyDate)
        /\ OneRowPerKey(dim_customer, KeyCustomer)
        /\ OneRowPerKey(dim_product, KeyProduct)

\* ---------------------------------------------------------------------- C17
RevenueOfMonth(m) ==
    SumOver(revenue_of(fact_sales),
            {i \in DOMAIN fact_sales : month_of_date_id(fact_sales[i].date_id) = m})

ProductRevenueOfMonth(m) ==
    SumOver([k \in DOMAIN monthly_product |-> monthly_product[k].TotalRevenue],
            {k \in DOMAIN monthly_product : monthly_product[k].month = m})

\* C17: in the per-product aggregate every fact row counts once: for every
\* month, the TotalRevenue of the product entries of the month add up to the
\* revenue of the fact rows of the month, also when a stock code occurs with
\* several descriptions.
C17_ProductRevenueCountedOnce ==
    pc = "done" => \A m \in FactMonths : ProductRevenueOfMonth(m) = RevenueOfMonth(m)

\* ---------------------------------------------------------------------- C18
\* the keys a training run on the aggregates at hand may write
EligibleKeys ==
    {GlobalKey}
        \cup {CustomerKey(id) : id \in {c \in Range(customer_ids) : Len(cust_df(c)) >= MinPoints}}
        \cup {ProductKeyTrain(d) : d \in {e \in Range(descriptions) : Len(prod_df(e)) >= MinPoints}}

\* C18: over any sequence of imports, ETL runs and training runs, no step
\* removes an artifact from the model store, and a step creates or changes
\* only the artifacts of 'global' and of the entities eligible in the running
\* training run; every other artifact stays as it is.
C18_ArtifactsOnlyAdded ==
    [][/\ DOMAIN models \subseteq DOMAIN models'
       /\ \A key \in DOMAIN models' :
             (key \notin DOMAIN models \/ models'[key] # models[key])
                => key \in EligibleKeys]_vars

\* a training run has finished on aggregates in which customer 1 has fewer
\* than 5 months, and the artifact of customer 1 of an earlier run is there
C18_Witness ==
    /\ caller = "train"
    /\ pc = "done"
    /\ tpc = "finished"
    /\ 1 \in Range(customer_ids)
    /\ Len(cust_df(1)) < MinPoints
    /\ CustomerKey(1) \in DOMAIN models

\* ---------------------------------------------------------------------- C19
\* the BatchSize rows of the master table from position first on (counted
\* from 0), continuing at the head of the table past its end, tracked
Window(first) ==
    [k \in 1..BatchSize |->
        tracked(sales[((first + k - 1) % Len(sales)) + 1], today, 2)]

\* C19: every run of the daily insert script, on every day and for every size
\* of the master table, ends without raising and appends to sales_log exactly
\* 100 rows: a window of 100 consecutive rows of the master table that wraps
\* around the end of the table.
C19_BatchOfHundred ==
    [][(ipc = "idle" /\ ipc' # "idle") =>
          /\ ipc' = "inserted"
          /\ Len(sales_log') = Len(sales_log) + BatchSize
          /\ \E first \in 0..(Len(sales) - 1) :
                sales_log' = sales_log \o Window(first)]_vars

\* the same for master tables of BatchSize rows or more: the nearby statement
\* that the script satisfies
C19_BatchOfHundredOnLargeTables ==
    [][(ipc = "idle" /\ ipc' # "idle" /\ Len(sales) >= BatchSize) =>
          /\ ipc' = "inserted"
          /\ Len(sales_log') = Len(sales_log) + BatchSize
          /\ \E first \in 0..(Len(sales) - 1) :
                sales_log' = sales_log \o Window(first)]_vars

====
